---- MODULE Spec2Model ----
(***************************************************************************)
(* State machine of src/tree.ts: the SymbolsTree orchestrator, the         *)
(* TreeDataProviderDelegate and the TreeInputHistory cache.                *)
(*                                                                         *)
(* Scheduling.  The program runs on one JavaScript event loop.  A handler  *)
(* runs from one suspension point to the next without interruption, and    *)
(* the promise reactions it leaves behind (the microtasks) run before any  *)
(* other task.  Each action below is therefore one task together with its  *)
(* microtasks, in the order the event loop runs them.  The suspension      *)
(* points that end a task are the awaits on host work: the position        *)
(* validation (line 48), input.resolve() (line 70), tree.reveal (line 89), *)
(* openTextDocument (line 261) and showQuickPick (line 240).               *)
(*                                                                         *)
(* An input object is named by the number of the setInput call that        *)
(* received it: every search and every re-run passes a fresh object.       *)
(* One document is modelled; a position is an offset in it.                *)
(***************************************************************************)
EXTENDS Integers, Sequences, FiniteSets, TLC

VARIABLES
    _input,             \* SymbolsTree._input: undefined or an input
    _sessionDisposable, \* SymbolsTree._sessionDisposable: undefined or the bundle of an input
    live,               \* session bundles created and not yet disposed (by input)
    title,              \* _tree.title
    message,            \* _tree.message
    _ctxIsActive,       \* context key reference-list.isActive
    _ctxHasResult,      \* context key reference-list.hasResult
    _ctxInputSource,    \* context key reference-list.source
    provider,           \* TreeDataProviderDelegate.provider: undefined or a promise
    _sessionDispoables, \* TreeDataProviderDelegate._sessionDispoables: undefined or a subscription
    listening,          \* providers whose change event the delegate is subscribed to
    updated,            \* the promise the latest call of update was given
    _inputs,            \* TreeInputHistory._inputs: the Map, as its entries in insertion order
    _ctxHasHistory,     \* context key reference-list.hasHistory
    adding,             \* inputs whose TreeInputHistory.add awaits openTextDocument
    calls,              \* the setInput calls made so far, by input
    quickPick,          \* the pickFromHistory command waiting in showQuickPick
    opened,             \* the selection of the latest vscode.open request: none, or a position
    disposed            \* SymbolsTree.dispose() has been called

vars == <<_input, _sessionDisposable, live, title, message, _ctxIsActive,
          _ctxHasResult, _ctxInputSource, provider, _sessionDispoables,
          listening, updated, _inputs, _ctxHasHistory, adding, calls, quickPick,
          opened, disposed>>

----------------------------------------------------------------------------
(* Bounds of the model *)

\* setInput calls (searches and re-runs) in one behaviour
MaxCalls == 2

\* setInput calls in one behaviour when each is made after the others have ended
MaxCallsInTurn == 3

----------------------------------------------------------------------------
(* Values *)

\* an optional field that holds nothing
undefined == 0

\* Promise.resolve(this._history) and the provider it resolves to
historyProvider == 0 - 1

\* value of a context key that was never set or was reset
unset == "undefined"

\* offsets a search can name: 1 lies in the word "ab" of the document, which
\* starts at 0, and 2 is past the end of the file
Positions == {1, 2}

\* the kinds of input the callers build: title, prototype, contextValue
Templates ==
    { [title |-> "References",  proto |-> "ReferencesTreeInput", contextValue |-> "referencesTree"],
      [title |-> "Callers Of",  proto |-> "CallsTreeInput",      contextValue |-> "callHierarchy"] }

\* doc.getWordRangeAtPosition(position), with the non-space fallback, finds a range
hasWordRange(position) == position \in {0, 1}

\* range?.start ?? input.position
rangeStart(position) == IF hasWordRange(position) THEN 0 ELSE position

\* range ? doc.getText(range) : '???'
word(position) == IF hasWordRange(position) THEN "ab" ELSE "???"

\* isValidRequestPosition(uri, position): the position is inside the document
isValidRequestPosition(position) == position < 2

\* model.message of the model that input c resolves to
ModelMessage(c) == "results of search " \o ToString(c)

----------------------------------------------------------------------------
(* The program state as one record, so that handlers compose *)

State ==
    [ _input |-> _input, _sessionDisposable |-> _sessionDisposable, live |-> live,
      title |-> title, message |-> message, _ctxIsActive |-> _ctxIsActive,
      _ctxHasResult |-> _ctxHasResult, _ctxInputSource |-> _ctxInputSource,
      provider |-> provider, _sessionDispoables |-> _sessionDispoables,
      listening |-> listening, updated |-> updated, _inputs |-> _inputs, _ctxHasHistory |-> _ctxHasHistory,
      adding |-> adding, calls |-> calls, quickPick |-> quickPick,
      opened |-> opened, disposed |-> disposed ]

\* where a call of setInput is: waiting at an await (lines 48, 70, 89), or
\* left through a return (lines 50, 72, 77, 111) or through the throw of the
\* await of a rejected model promise (line 70)
Awaits == {"await 48", "await 70", "await 89"}
Exits == {"return 50", "return 72", "return 77", "return 111", "throw 70"}

returned(s, c) == s.calls[c].pc \in Exits

\* an input object is referenced by the program state
referenced(s, c) ==
    \/ s._input = c
    \/ c \in s.adding \cup s.live
    \/ ~returned(s, c)
    \/ \E i \in 1..Len(s._inputs) : s._inputs[i].input = c
    \/ \E i \in 1..Len(s.quickPick.entries) : s.quickPick.entries[i].input = c

\* an input object nothing refers to any more: its fields cannot be read
\* again; how its call ended is kept
collected(call) ==
    [ position |-> 0, title |-> "", proto |-> "", contextValue |-> "",
      rerun |-> call.rerun, pc |-> call.pc ]

\* the state with the unreferenced input objects dropped
collect(s) ==
    [s EXCEPT !.calls = [c \in 1..Len(s.calls) |->
                            IF referenced(s, c) THEN s.calls[c] ELSE collected(s.calls[c])]]

Becomes(t) ==
    \E s \in {collect(t)} :
    /\ _input' = s._input
    /\ _sessionDisposable' = s._sessionDisposable
    /\ live' = s.live
    /\ title' = s.title
    /\ message' = s.message
    /\ _ctxIsActive' = s._ctxIsActive
    /\ _ctxHasResult' = s._ctxHasResult
    /\ _ctxInputSource' = s._ctxInputSource
    /\ provider' = s.provider
    /\ _sessionDispoables' = s._sessionDispoables
    /\ listening' = s.listening
    /\ updated' = s.updated
    /\ _inputs' = s._inputs
    /\ _ctxHasHistory' = s._ctxHasHistory
    /\ adding' = s.adding
    /\ calls' = s.calls
    /\ quickPick' = s.quickPick
    /\ opened' = s.opened
    /\ disposed' = s.disposed

Init ==
    /\ _input = undefined
    /\ _sessionDisposable = undefined
    /\ live = {}
    /\ title = ""
    /\ message = ""
    /\ _ctxIsActive = unset
    /\ _ctxHasResult = unset
    /\ _ctxInputSource = unset
    /\ provider = undefined
    /\ _sessionDispoables = undefined
    /\ listening = {}
    /\ updated = undefined
    /\ _inputs = <<>>
    /\ _ctxHasHistory = unset
    /\ adding = {}
    /\ calls = <<>>
    /\ quickPick = [open |-> FALSE, entries |-> <<>>]
    /\ opened = {}
    /\ disposed = FALSE

----------------------------------------------------------------------------
(* TreeDataProviderDelegate *)

\* update(provider) up to this._onDidChange.fire() (lines 141-144): the state
\* in which the listeners of the change event are called
fire(s) ==
    [s EXCEPT !.listening = @ \ {s._sessionDispoables},
              !._sessionDispoables = undefined]

\* update(provider), its synchronous part (lines 141-146); the change event it
\* fires has no listener that changes this state
update(s, p) ==
    [fire(s) EXCEPT !.provider = p, !.updated = p]

\* thenSubscribe without the still-current test of line 149
thenSubscribeAlways(s, p, value) ==
    [s EXCEPT !._sessionDispoables = value, !.listening = @ \cup {value}]

\* the reaction to the promise p fulfilled with value (lines 148-151)
thenSubscribe(s, p, value) ==
    IF s.provider = p
    THEN [s EXCEPT !._sessionDispoables = value, !.listening = @ \cup {value}]
    ELSE s

\* catchRejected that only logs the error
catchRejectedKeepsProvider(s) == s

\* the reaction to the promise rejected (lines 152-155)
catchRejected(s) == [s EXCEPT !.provider = undefined]

\* _assertProvider and the await of getTreeItem / getChildren / getParent:
\* the error thrown, or the promise whose provider answers
query(s) ==
    IF s.provider = undefined THEN "MISSING provider"
    ELSE IF s.provider = historyProvider THEN "history"
    ELSE "model " \o ToString(s.provider)

----------------------------------------------------------------------------
(* TreeInputHistory: the Map _inputs *)

RECURSIVE indexOfKey(_, _)
\* position of key in the entries, 0 when absent
indexOfKey(entries, key) ==
    IF entries = <<>> THEN 0
    ELSE IF entries[Len(entries)].key = key THEN Len(entries)
    ELSE indexOfKey(SubSeq(entries, 1, Len(entries) - 1), key)

\* Map.prototype.delete
mapDelete(entries, key) ==
    LET i == indexOfKey(entries, key)
    IN  IF i = 0 THEN entries
        ELSE SubSeq(entries, 1, i - 1) \o SubSeq(entries, i + 1, Len(entries))

\* Map.prototype.set: a key already present keeps its place
mapSet(entries, key, item) ==
    LET i == indexOfKey(entries, key)
    IN  IF i = 0 THEN Append(entries, item)
        ELSE [entries EXCEPT ![i] = item]

\* new HistoryItem(JSON.stringify([range?.start ?? input.position, input.uri, input.title]), ...)
HistoryItem(s, c) ==
    [ key   |-> <<rangeStart(s.calls[c].position), s.calls[c].title>>,
      word  |-> word(s.calls[c].position),
      input |-> c ]

RECURSIVE reverse(_)
reverse(seq) ==
    IF seq = <<>> THEN <<>> ELSE Append(reverse(Tail(seq)), Head(seq))

\* getChildren without the reverse()
getChildrenInMapOrder(s) == s._inputs

\* getChildren(): [...this._inputs.values()].reverse()
getChildren(s) == reverse(s._inputs)

\* add without the delete of line 269
addAfterOpenWithoutDelete(s, c) ==
    LET item == HistoryItem(s, c)
    IN  [s EXCEPT !._inputs = mapSet(s._inputs, item.key, item),
                  !._ctxHasHistory = "true",
                  !.adding = @ \ {c}]

\* add(input) after openTextDocument (lines 263-271)
addAfterOpen(s, c) ==
    LET item == HistoryItem(s, c)
    IN  [s EXCEPT !._inputs = mapSet(mapDelete(s._inputs, item.key), item.key, item),
                  !._ctxHasHistory = "true",
                  !.adding = @ \ {c}]

\* add(input) up to its await (line 261)
add(s, c) == [s EXCEPT !.adding = @ \cup {c}]

\* clear()
clear(s) == [s EXCEPT !._inputs = <<>>, !._ctxHasHistory = "false"]

----------------------------------------------------------------------------
(* SymbolsTree *)

\* this._sessionDisposable?.dispose()
disposeSession(s) == [s EXCEPT !.live = @ \ {s._sessionDisposable}]

\* clearInput that leaves the hasResult flag as it is
clearInputKeepsHasResult(s) ==
    LET d == disposeSession(s)
    IN  update([d EXCEPT !._input = undefined,
                         !._ctxInputSource = unset,
                         !.title = "References",
                         !.message = IF Len(s._inputs) = 0 THEN "No results."
                                     ELSE "No results. Try running a previous search again:"],
               historyProvider)

\* clearInput(), its synchronous part
clearInput(s) ==
    LET d == disposeSession(s)
    IN  update([d EXCEPT !._input = undefined,
                         !._ctxHasResult = "false",
                         !._ctxInputSource = unset,
                         !.title = "References",
                         !.message = IF Len(s._inputs) = 0 THEN "No results."
                                     ELSE "No results. Try running a previous search again:"],
               historyProvider)

\* clearInput() and the reaction of the delegate to Promise.resolve(this._history)
clearInputTask(s) == thenSubscribe(clearInput(s), historyProvider, historyProvider)

\* dispose(): the commands of the history are unregistered, the view is
\* disposed, and so is the session bundle that is stored
dispose(s) == [disposeSession(s) EXCEPT !.disposed = TRUE]

\* lines 92-110: the session bundle of input c is built and stored
installSession(s, c) ==
    [s EXCEPT !._sessionDisposable = c, !.live = @ \cup {c}]

\* the call setInput(input) up to its first await (line 48); rerun tells that
\* the input was built by input.with() in _reRunHistoryItem
setInput(s, position, template, rerun) ==
    [s EXCEPT !.calls = Append(@, [ position     |-> position,
                                    title        |-> template.title,
                                    proto        |-> template.proto,
                                    contextValue |-> template.contextValue,
                                    rerun        |-> rerun,
                                    pc           |-> "await 48" ])]

\* the call of input c returns or throws at the line named
return(s, c, exit) == [s EXCEPT !.calls[c].pc = exit]

\* lines 53-68: the position is valid; up to the await of the model
startResolve(s, c) ==
    LET newInputKind == \/ s._input = undefined
                        \/ s.calls[s._input].proto # s.calls[c].proto
        d == disposeSession(s)
    IN  update([d EXCEPT !._ctxInputSource = s.calls[c].contextValue,
                         !._ctxIsActive = "true",
                         !._ctxHasResult = "true",
                         !._input = c,
                         !.title = s.calls[c].title,
                         !.message = IF newInputKind THEN "" ELSE s.message,
                         !.calls[c].pc = "await 70"],
               c)

\* setInput without the test of line 48
afterValidationUnchecked(s, c) == startResolve(s, c)

\* lines 48-68: the task that runs once the validation has settled
afterValidation(s, c) ==
    IF isValidRequestPosition(s.calls[c].position)
    THEN startResolve(s, c)
    ELSE return(clearInputTask(s), c, "return 50")

\* lines 80-110: the model has results and the input is still the current one
showResults(s, c, reveal) ==
    LET a == [add(s, c) EXCEPT !.message = ModelMessage(c)]
    IN  IF reveal
        THEN [a EXCEPT !.calls[c].pc = "await 89"]
        ELSE return(installSession(a, c), c, "return 111")

\* setInput without the test of line 75
afterResolveShowsEmpty(s, c, empty, reveal) ==
    IF s._input # c THEN return(s, c, "return 72")
    ELSE showResults(s, c, reveal)

\* lines 70-110: the continuation of setInput once the model promise is fulfilled
afterResolve(s, c, empty, reveal) ==
    IF s._input # c THEN return(s, c, "return 72")
    ELSE IF empty THEN return(clearInput(s), c, "return 77")
    ELSE showResults(s, c, reveal)

\* the task that runs once input.resolve() is fulfilled: the continuation of
\* setInput, then the delegate's reaction to the model's provider, then its
\* reaction to the history promise when clearInput ran
resolveFulfilled(s, c, empty, reveal) ==
    LET k == afterResolve(s, c, empty, reveal)
        d == thenSubscribe(k, c, c)
    IN  IF s._input = c /\ empty
        THEN thenSubscribe(d, historyProvider, historyProvider)
        ELSE d

\* resolveRejected of a setInput that calls history.add before it awaits the model
resolveRejectedAfterAdd(s, c) ==
    catchRejected(return(add(s, c), c, "throw 70"))

\* the task that runs once input.resolve() is rejected: setInput throws at line
\* 70 and the delegate's catch runs
resolveRejected(s, c) ==
    catchRejected(return(s, c, "throw 70"))

\* line 89 has settled: lines 92-110
afterReveal(s, c) == return(installSession(s, c), c, "return 111")

\* the listener of lines 102-106, called by the model's provider of input c
onDidChangeTreeData(s, c) ==
    [s EXCEPT !.title = s.calls[c].title, !.message = ModelMessage(c)]

----------------------------------------------------------------------------
(* TreeInputHistory: the commands *)

\* _reRunHistoryItem without the delete of line 254
reRunHistoryItemKeepsItem(s, item, guess) ==
    LET old == s.calls[item.input]
        position == IF guess = {} THEN old.position ELSE CHOOSE p \in guess : TRUE
    IN  setInput(s, position,
                 [title |-> old.title, proto |-> old.proto, contextValue |-> old.contextValue],
                 TRUE)

\* _reRunHistoryItem(item); guess is what anchor.guessedTrackedPosition()
\* returns: no position, or one
reRunHistoryItem(s, item, guess) ==
    LET old == s.calls[item.input]
        position == IF guess = {} THEN old.position ELSE CHOOSE p \in guess : TRUE
        d == [s EXCEPT !._inputs = mapDelete(@, item.key)]
    IN  setInput(d, position,
                 [title |-> old.title, proto |-> old.proto, contextValue |-> old.contextValue],
                 TRUE)

\* what anchor.guessedTrackedPosition() can return: no position, or the
\* place where the word is found now
Guesses == {{}, {0}}

\* command references-view.refresh (lines 219-222): const [item] takes the
\* first value of the Map
refresh(s, guess) ==
    IF s._inputs = <<>> THEN s ELSE reRunHistoryItem(s, s._inputs[1], guess)

\* showHistoryItem that opens the document and runs the search again
showHistoryItemReRuns(s, item, guess) ==
    LET old == s.calls[item.input]
        position == IF guess = {} THEN old.position ELSE CHOOSE p \in guess : TRUE
    IN  [reRunHistoryItem(s, item, guess) EXCEPT !.opened = {position}]

\* showHistoryItem that opens the document where the search was made
showHistoryItemAtStored(s, item, guess) ==
    [s EXCEPT !.opened = {s.calls[item.input].position}]

\* command _references-view.showHistoryItem (lines 225-228): vscode.open with
\* the empty selection new Range(position, position)
showHistoryItem(s, item, guess) ==
    LET old == s.calls[item.input]
        position == IF guess = {} THEN old.position ELSE CHOOSE p \in guess : TRUE
    IN  [s EXCEPT !.opened = {position}]

----------------------------------------------------------------------------
(* Actions: one task of the event loop each *)

\* a caller starts a search: setInput(input) with a new input; the callers
\* make no call once they have disposed the view
Search(limit) ==
    /\ ~disposed
    /\ Len(calls) < limit
    /\ \E position \in Positions, template \in Templates :
           Becomes(setInput(State, position, template, FALSE))

\* isValidRequestPosition has settled for the call of input c
Validated(c) ==
    /\ calls[c].pc = "await 48"
    /\ Becomes(afterValidation(State, c))

\* input.resolve() is fulfilled for the call of input c
Resolved(c) ==
    /\ calls[c].pc = "await 70"
    /\ \E empty \in BOOLEAN, reveal \in BOOLEAN :
           /\ reveal => ~empty /\ _input = c
           /\ Becomes(resolveFulfilled(State, c, empty, reveal))

\* input.resolve() is rejected for the call of input c
Rejected(c) ==
    /\ calls[c].pc = "await 70"
    /\ Becomes(resolveRejected(State, c))

\* _tree.reveal has settled for the call of input c
Revealed(c) ==
    /\ calls[c].pc = "await 89"
    /\ Becomes(afterReveal(State, c))

\* the provider of a model fires its change event while a session listens to it
ProviderChanged(c) ==
    /\ c \in live
    /\ Becomes(onDidChangeTreeData(State, c))

\* openTextDocument has settled inside add(input)
AddOpened(c) ==
    /\ c \in adding
    /\ Becomes(addAfterOpen(State, c))

\* command references-view.clear; dispose() unregisters the commands (line 249)
Clear == ~disposed /\ Becomes(clearInputTask(State))

\* command references-view.clearHistory
ClearHistory == ~disposed /\ Becomes(clearInputTask(clear(State)))

\* command references-view.refind on an item the view shows
Refind(limit) ==
    /\ ~disposed
    /\ Len(calls) < limit
    /\ \E i \in 1..Len(_inputs), guess \in Guesses :
           Becomes(reRunHistoryItem(State, _inputs[i], guess))

\* command references-view.refresh: const [item] = this._inputs.values()
Refresh(limit) ==
    /\ ~disposed
    /\ Len(calls) < limit
    /\ \E guess \in Guesses : Becomes(refresh(State, guess))

\* command references-view.pickFromHistory up to showQuickPick; with no entry
\* to show, the pick can only be cancelled, which changes nothing
PickFromHistory ==
    /\ ~disposed
    /\ ~quickPick.open
    /\ _inputs # <<>>
    /\ Becomes([State EXCEPT !.quickPick = [open |-> TRUE, entries |-> getChildren(State)]])

\* showQuickPick settles with a pick
Picked(limit) ==
    /\ quickPick.open
    /\ Len(calls) < limit
    /\ \E i \in 1..Len(quickPick.entries), guess \in Guesses :
           Becomes(reRunHistoryItem([State EXCEPT !.quickPick = [open |-> FALSE, entries |-> <<>>]],
                                    quickPick.entries[i], guess))

\* showQuickPick settles with no pick
PickCancelled ==
    /\ quickPick.open
    /\ Becomes([State EXCEPT !.quickPick = [open |-> FALSE, entries |-> <<>>]])

\* command _references-view.showHistoryItem, the command of a tree item of the
\* history
ShowHistoryItem ==
    /\ ~disposed
    /\ \E i \in 1..Len(_inputs), guess \in Guesses :
           Becomes(showHistoryItem(State, _inputs[i], guess))

\* the owner of the view calls dispose()
Dispose ==
    /\ ~disposed
    /\ Becomes(dispose(State))

Next ==
    \/ Search(MaxCalls)
    \/ \E c \in 1..Len(calls) : Validated(c)
    \/ \E c \in 1..Len(calls) : Resolved(c)
    \/ \E c \in 1..Len(calls) : Rejected(c)
    \/ \E c \in 1..Len(calls) : Revealed(c)
    \/ \E c \in 1..Len(calls) : ProviderChanged(c)
    \/ \E c \in 1..Len(calls) : AddOpened(c)
    \/ Clear
    \/ ClearHistory
    \/ Refind(MaxCalls)
    \/ Refresh(MaxCalls)
    \/ PickFromHistory
    \/ Picked(MaxCalls)
    \/ PickCancelled
    \/ ShowHistoryItem
    \/ Dispose

Spec == Init /\ [][Next]_vars

\* no call of setInput is waiting
Idle == \A c \in 1..Len(calls) : returned(State, c)

\* the same tasks, with more calls of setInput, each made when the calls before
\* it have ended; an add of an earlier call may still wait for its document
NextInTurn ==
    \/ Idle /\ Search(MaxCallsInTurn)
    \/ \E c \in 1..Len(calls) : Validated(c)
    \/ \E c \in 1..Len(calls) : Resolved(c)
    \/ \E c \in 1..Len(calls) : Rejected(c)
    \/ \E c \in 1..Len(calls) : Revealed(c)
    \/ \E c \in 1..Len(calls) : ProviderChanged(c)
    \/ \E c \in 1..Len(calls) : AddOpened(c)
    \/ Clear
    \/ ClearHistory
    \/ Idle /\ Refind(MaxCallsInTurn)
    \/ Idle /\ Refresh(MaxCallsInTurn)
    \/ PickFromHistory
    \/ Idle /\ Picked(MaxCallsInTurn)
    \/ PickCancelled
    \/ ShowHistoryItem
    \/ Dispose

SpecInTurn == Init /\ [][NextInTurn]_vars

----------------------------------------------------------------------------
(* What a user of the view can observe *)

\* the state the view shows, the isActive flag apart
visibleButActive(s) ==
    [ _input |-> s._input, title |-> s.title, message |-> s.message,
      _ctxHasResult |-> s._ctxHasResult, _ctxInputSource |-> s._ctxInputSource,
      provider |-> s.provider, _sessionDispoables |-> s._sessionDispoables,
      listening |-> s.listening, _sessionDisposable |-> s._sessionDisposable,
      live |-> s.live, _inputs |-> s._inputs, _ctxHasHistory |-> s._ctxHasHistory ]

\* the state the view shows
visible(s) == <<visibleButActive(s), s._ctxIsActive>>

\* setInput(input) run from state s with nothing else in between, for an input
\* whose model is empty: the three tasks of the call, one after the other
setInputEmpty(s, position, template) ==
    LET c == Len(s.calls) + 1
    IN  resolveFulfilled(afterValidation(setInput(s, position, template, FALSE), c), c, TRUE, FALSE)

ValidPositions == {p \in Positions \cup {0} : isValidRequestPosition(p)}

----------------------------------------------------------------------------
(* Claims *)

\* C1 (superseding): when the model promise of input a settles and a later
\* setInput call has been made already, the settling leaves the current input,
\* the title, the message, the history (entries and pending adds) and the
\* session resources as they were, and the call of a ends there.
C1_Superseding ==
    [][\A a \in 1..Len(calls) :
          (calls[a].pc = "await 70" /\ calls'[a].pc # "await 70" /\ Len(calls) > a)
          => /\ calls'[a].pc \in Exits
             /\ _input' = _input
             /\ title' = title
             /\ message' = message
             /\ adding' = adding
             /\ _inputs' = _inputs
             /\ live' = live
             /\ _sessionDisposable' = _sessionDisposable]_vars

\* C2 (session scoping): every session bundle that is installed and not
\* disposed was built for the current input.
C2_SessionScoped == \A c \in live : c = _input

\* C3 as stated (empty-result equivalence): from any state, setInput of a valid
\* input whose model is empty leaves the same visible state, context flags
\* included, as clearInput() from that state.
C3_EmptyResultAsClear ==
    \A position \in ValidPositions, template \in Templates :
        visible(setInputEmpty(State, position, template)) = visible(clearInputTask(State))

\* C3 as amended: the two visible states agree on everything but the isActive
\* flag, which setInput has set to true and clearInput leaves as it was.
C3_EmptyResultAsClearButActive ==
    \A position \in ValidPositions, template \in Templates :
        LET a == setInputEmpty(State, position, template)
        IN  /\ visibleButActive(a) = visibleButActive(clearInputTask(State))
            /\ a._ctxIsActive = "true"

\* C3 witness: a call of setInput has ended at line 77, on an empty model of the
\* current input, and the view shows the history with nothing else pending.
C3_Witness ==
    /\ \E c \in 1..Len(calls) : calls[c].pc = "return 77"
    /\ \A c \in 1..Len(calls) : returned(State, c)
    /\ _input = undefined
    /\ _ctxIsActive = "true"
    /\ _ctxHasResult = "false"
    /\ title = "References"
    /\ message = "No results."
    /\ listening = {historyProvider}

\* C4 (has-history flag): the hasHistory flag is true exactly when the history
\* cache holds an item.
C4_HasHistoryFlag == (_ctxHasHistory = "true") <=> (Len(_inputs) > 0)

\* the entries of seq whose key is not key, in their order
without(seq, key) ==
    LET other(item) == item.key # key IN SelectSeq(seq, other)

\* the items a re-run can be given: those of the cache and those of an open pick
Items ==
    {_inputs[i] : i \in 1..Len(_inputs)} \cup
    {quickPick.entries[i] : i \in 1..Len(quickPick.entries)}

\* no two items of the cache have the same key
C5_OneItemPerKey ==
    \A i, j \in 1..Len(_inputs) : _inputs[i].key = _inputs[j].key => i = j

\* C5 (history de-duplication): the cache never holds two items with one key,
\* and when add(input) finishes, the new item is the first of getChildren(), no
\* other item has its key, and the size grows by one only if the key was new.
C5_Dedup ==
    /\ []C5_OneItemPerKey
    /\ [][\A c \in adding :
            Becomes(addAfterOpen(State, c)) =>
                LET item == HistoryItem(State, c)
                    had  == \E i \in 1..Len(_inputs) : _inputs[i].key = item.key
                IN  /\ Len(_inputs') = IF had THEN Len(_inputs) ELSE Len(_inputs) + 1
                    /\ getChildren(State')[1] = item
                    /\ \A i \in 2..Len(_inputs') : getChildren(State')[i].key # item.key]_vars

\* C5 witness: three searches have shown results and finished their add, and
\* the cache holds two items: that of the second search and, listed first, that
\* of the first search, whose add finished last.
C5_Witness ==
    /\ Len(calls) = 3
    /\ \A c \in 1..3 : calls[c].pc = "return 111" /\ ~calls[c].rerun
    /\ adding = {}
    /\ Len(_inputs) = 2
    /\ getChildren(State)[1].input = 1
    /\ getChildren(State)[2].input = 2
    /\ _ctxHasHistory = "true"

\* C6 (history ordering): getChildren() lists the entries of the cache, each
\* once, the latest inserted first; a step leaves the list as it is, or puts the
\* item of a finished add first and drops the older item of its key, or drops
\* the item a re-run was given, or empties it (clear).
C6_Ordering ==
    /\ [](/\ Len(getChildren(State)) = Len(_inputs)
          /\ \A i \in 1..Len(_inputs) :
                getChildren(State)[i] = _inputs[Len(_inputs) + 1 - i])
    /\ [][LET before == getChildren(State)
              after  == getChildren(State')
          IN  \/ after = before
              \/ \E c \in adding :
                    /\ adding' = adding \ {c}
                    /\ after = <<HistoryItem(State, c)>> \o without(before, HistoryItem(State, c).key)
              \/ /\ Len(calls') = Len(calls) + 1
                 /\ calls'[Len(calls')].rerun
                 /\ \E item \in Items : after = without(before, item.key)
              \/ /\ after = <<>>
                 /\ _ctxHasHistory' = "false"]_vars

\* C6 witness: the cache holds the items of a search, listed first, and of
\* the re-run of an earlier item, and a third call is being validated.
C6_Witness ==
    /\ Len(calls) = 3
    /\ Len(_inputs) = 2
    /\ calls[_inputs[1].input].rerun
    /\ ~calls[_inputs[2].input].rerun
    /\ getChildren(State)[1] = _inputs[2]
    /\ getChildren(State)[2] = _inputs[1]

\* C7 (invalid position): when the validation of a call settles for a position
\* that is not valid, the call ends at line 50 without reaching resolve(), the
\* state is the one clearInput() gives (no current input, hasResult false, the
\* default title, the history provider in the delegate), and the history is
\* as it was.
C7_InvalidPosition ==
    [][\A c \in 1..Len(calls) :
          (/\ calls[c].pc = "await 48"
           /\ ~isValidRequestPosition(calls[c].position)
           /\ calls'[c].pc # "await 48")
          => /\ calls'[c].pc = "return 50"
             /\ _input' = undefined
             /\ _ctxHasResult' = "false"
             /\ title' = "References"
             /\ provider' = historyProvider
             /\ _inputs' = _inputs
             /\ adding' = adding
             /\ visible(State') = visible(clearInputTask(State))]_vars

\* C7 witness: a search has shown its results and a later call, of an invalid
\* position, has ended at line 50: the view is cleared, the session disposed.
C7_Witness ==
    /\ Len(calls) = 2
    /\ calls[1].pc = "return 111"
    /\ calls[2].pc = "return 50"
    /\ _input = undefined
    /\ _ctxHasResult = "false"
    /\ title = "References"
    /\ provider = historyProvider
    /\ live = {}

C9_DelegateSubscription ==
    /\ Cardinality(listening) <= 1
    /\ \A value \in listening :
          /\ value = updated
          /\ value = _sessionDispoables
          /\ value # historyProvider => calls[value].pc \in {"await 89", "return 111"}

\* C9 witness: update was given the promise of input 1 and then that of input
\* 2; both are fulfilled, that of input 1 after the second update, and the
\* delegate listens to the provider of input 2 alone.
C9_Witness ==
    /\ Len(calls) = 2
    /\ calls[1].pc = "return 72"
    /\ calls[2].pc \in {"await 89", "return 111"}
    /\ updated = 2
    /\ listening = {2}

\* a step in which the model promise of a call is rejected unsets the provider
\* and changes nothing else
C10_RejectedStep ==
    \A c \in 1..Len(calls) :
        (calls[c].pc = "await 70" /\ calls'[c].pc = "throw 70")
        => /\ provider' = undefined
           /\ query(State') = "MISSING provider"
           /\ visible([State EXCEPT !.provider = undefined]) = visible(State')
           /\ updated' = updated

\* a step that sets an unset provider is a call of update, by setInput (line
\* 68) or by clearInput (line 120)
C10_UnsetUntilUpdate ==
    (provider = undefined /\ provider' # undefined)
    => /\ provider' = updated'
       /\ \/ provider' = historyProvider /\ _input' = undefined
          \/ /\ provider' \in 1..Len(calls)
             /\ calls[provider'].pc = "await 48"
             /\ calls'[provider'].pc = "await 70"

\* C10 (delegate rejection): when the model promise of a call is rejected, the
\* call ends in its own await, the delegate has no provider and nothing else
\* changes; the provider stays unset until update is called again, by
\* setInput or by clearInput; and a query fails with MISSING provider exactly
\* when no provider is set.
C10_Rejection ==
    /\ [](query(State) = "MISSING provider" <=> provider = undefined)
    /\ [][C10_RejectedStep /\ C10_UnsetUntilUpdate]_vars

\* C10 witness: the model promise of the current input was rejected; the
\* delegate has no provider and a query fails.
C10_Witness ==
    /\ \E c \in 1..Len(calls) : calls[c].pc = "throw 70" /\ _input = c
    /\ provider = undefined
    /\ query(State) = "MISSING provider"

\* a step in which the model promise of the current input is rejected starts no
\* add, installs no session, leaves the message and the cache as they are,
\* makes no call of setInput and leaves the delegate without a provider
C11_RejectedStep ==
    \A c \in 1..Len(calls) :
        (calls[c].pc = "await 70" /\ calls'[c].pc = "throw 70" /\ _input = c)
        => /\ adding' = adding
           /\ _inputs' = _inputs
           /\ live' = live
           /\ _sessionDisposable' = _sessionDisposable
           /\ message' = message
           /\ provider' = undefined
           /\ Len(calls') = Len(calls)
           /\ \A d \in 1..Len(calls) : d # c => calls'[d].pc = calls[d].pc

\* resolve() is called at line 65 alone: a call comes to await its model from
\* the await of its validation, and a call that threw stays ended
C11_ResolveOnce ==
    \A c \in 1..Len(calls) :
        /\ calls'[c].pc = "await 70" => calls[c].pc \in {"await 48", "await 70"}
        /\ calls[c].pc \in Exits => calls'[c].pc = calls[c].pc

\* a call whose model promise was rejected has no add, no session bundle and
\* no item in the cache
C11_NothingOfRejected ==
    \A c \in 1..Len(calls) :
        calls[c].pc = "throw 70"
        => /\ c \notin adding \cup live
           /\ _sessionDisposable # c
           /\ \A i \in 1..Len(_inputs) : _inputs[i].input # c

\* C11 (resolution rejection): when input.resolve() rejects for the current
\* input, no history entry is added, no session resources are installed, the
\* message is not set from a model, the delegate ends with no provider, and
\* resolve() is not called again: it is called once per call of setInput.
C11_ResolveRejection ==
    /\ []C11_NothingOfRejected
    /\ [][C11_RejectedStep /\ C11_ResolveOnce]_vars

\* C11 witness: a search showed its results and was added to the history; the
\* model promise of the next one, the current input, was rejected: the cache
\* holds the first item alone and no session bundle is left.
C11_Witness ==
    /\ Len(calls) = 2
    /\ calls[1].pc = "return 111"
    /\ calls[2].pc = "throw 70"
    /\ _input = 2
    /\ provider = undefined
    /\ adding = {}
    /\ live = {}
    /\ Len(_inputs) = 1
    /\ _inputs[1].input = 1

\* item.anchor.guessedTrackedPosition() ?? item.input.position, as the claim
\* states it
C12_Position(item, guess) ==
    IF guess = {} THEN calls[item.input].position ELSE CHOOSE p \in guess : TRUE

\* C12 (re-anchoring fallback): a re-run passes to input.with, and
\* show-history-item opens with an empty selection at, the position that
\* guessedTrackedPosition() returns, or the stored position of the input of
\* the item when it returns none.
C12_ReAnchoring ==
    [][\A item \in Items, guess \in Guesses :
          /\ Becomes(reRunHistoryItem(State, item, guess))
             => calls'[Len(calls')].position = C12_Position(item, guess)
          /\ Becomes(showHistoryItem(State, item, guess))
             => opened' = {C12_Position(item, guess)}]_vars

\* C12 witness: an item was shown at its stored position 1, which no guess
\* gives, and the call of a re-run waits for its model at the guessed position 0.
C12_Witness ==
    /\ opened = {1}
    /\ \E c \in 1..Len(calls) :
          calls[c].rerun /\ calls[c].pc = "await 70" /\ calls[c].position = 0

\* C13 (show-history-item frame): the show-history-item action starts no
\* search: it makes no call of setInput, and leaves the current input, the
\* cache, the context flags, the title, the message, the provider of the
\* delegate and the session resources as they are; nothing else changes the
\* selection that was opened.
C13_ShowHistoryItemFrame ==
    [][/\ \A item \in Items, guess \in Guesses :
            Becomes(showHistoryItem(State, item, guess))
            => UNCHANGED <<_input, _sessionDisposable, live, title, message,
                           _ctxIsActive, _ctxHasResult, _ctxInputSource, provider,
                           _sessionDispoables, listening, updated, _inputs,
                           _ctxHasHistory, adding, calls, quickPick, disposed>>
       /\ opened' # opened
            => /\ \E item \in Items, guess \in Guesses :
                     Becomes(showHistoryItem(State, item, guess))
               /\ \A c \in 1..Len(calls) : calls'[c].pc = calls[c].pc
               /\ Len(calls') = Len(calls)]_vars

\* C13 witness: an item was shown while a search has its results on view, its
\* session installed and its add pending.
C13_Witness ==
    /\ opened # {}
    /\ _input # undefined
    /\ _input \in live
    /\ _input \in adding
    /\ Len(_inputs) > 0
    /\ title # "References" \/ message # ""

\* C14 (transition notification): in a task that calls update (the validation
\* of a call has settled, or the promise given to update changes), a query
\* made when the change event fires, at line 144, is answered as a query made
\* once update has returned: by the promise update was given.
C14_TransitionNotification ==
    [][(\/ updated' # updated
        \/ \E c \in 1..Len(calls) : calls[c].pc = "await 48" /\ calls'[c].pc # "await 48")
       => query(fire(State)) = query(update(State, updated'))]_vars

\* C15 (final teardown): once dispose() has been called, no session bundle is
\* undisposed.
C15_FinalTeardown == disposed => live = {}

\* C16 (stale rejection isolation): when the model promise of a call is
\* rejected after update was given another promise, the provider of the
\* delegate stays as it is and queries are answered as before.
C16_StaleRejection ==
    [][\A c \in 1..Len(calls) :
          (calls[c].pc = "await 70" /\ calls'[c].pc = "throw 70" /\ updated # c)
          => /\ provider' = provider
             /\ query(State') = query(State)]_vars

\* C17 (result flag matches input): between tasks the hasResult flag is true
\* exactly when there is a current input, a flag never set counting as false;
\* a step that changes the current input leaves the flag matching it.
C17_HasResultFlag ==
    /\ []((_ctxHasResult = "true") <=> (_input # undefined))
    /\ [][_input' # _input
            => _ctxHasResult' = IF _input' = undefined THEN "false" ELSE "true"]_vars

\* C17 witness: a search ended on an empty model, which cleared the flag, and
\* the next one is the current input and waits for its model, the flag true.
C17_Witness ==
    /\ Len(calls) = 2
    /\ calls[1].pc = "return 77"
    /\ calls[2].pc = "await 70"
    /\ _input = 2
    /\ _ctxHasResult = "true"

\* C18 (refresh target): the refresh command re-runs the item that
\* getChildren() lists first when the cache holds an item, and does nothing
\* when it holds none.
C18_RefreshTarget ==
    [][\A guess \in Guesses :
          Becomes(refresh(State, guess))
          => IF _inputs = <<>> THEN UNCHANGED vars
             ELSE Becomes(reRunHistoryItem(State, getChildren(State)[1], guess))]_vars

\* C19 (recency follows search order), for calls of setInput made one after
\* the other, where the later call resolves later: of two items of the cache,
\* getChildren() lists first the one of the later call.
C19_RecencyFollowsSearchOrder ==
    \A i, j \in 1..Len(_inputs) :
        i < j => getChildren(State)[i].input > getChildren(State)[j].input

\* C20 (idle message): when there is no current input and clearInput() was
\* the last to change the view, the message is 'No results.' if the cache is
\* empty and the other variant if it holds an item.
C20_IdleMessage ==
    (_input = undefined /\ updated = historyProvider)
    => message = IF Len(_inputs) = 0 THEN "No results."
                 ELSE "No results. Try running a previous search again:"

====
